---- MODULE Spec2Model ----
(***************************************************************************)
(* A model of the FastAPI service of src/main.py: the startup (lifespan)   *)
(* that builds a VaultClient (src/vault_client.py) and an S3Manager        *)
(* (src/s3_manager.py), and the create / delete bucket endpoints.          *)
(*                                                                         *)
(* The storage provider (the boto3 S3 client) and the secrets backend      *)
(* (the hvac client) are the environment.  The provider is modelled by the *)
(* documented behaviour of the S3 API calls the code issues: a listing     *)
(* returns at most one page, a batch delete without a version id removes   *)
(* the object of an unversioned bucket and adds a delete marker in a       *)
(* versioned one, a bucket deletion is rejected while anything is left.    *)
(* Every provider call may also fail with an injected error.               *)
(***************************************************************************)
EXTENDS Integers, Sequences, FiniteSets, TLC

\* ------------------------------------------------------------------ bounds
\* Object keys are 1..MaxKeys.
MaxKeys == 3
\* Entries a provider listing returns in one response (1000 at the provider).
PageSize == 2

\* ------------------------------------------------------- program constants
HTTP_200_OK == 200
HTTP_404_NOT_FOUND == 404
HTTP_403_FORBIDDEN == 403
HTTP_409_CONFLICT == 409
HTTP_500_INTERNAL_SERVER_ERROR == 500

DefaultRegion == "us-east-1"
Regions == {"us-east-1", "eu-west-1"}
Names == {"b1", "b2"}
\* The workers that serve the endpoints; each serves one invocation.
Reqs == {1, 2}
None == "None"

VARIABLES
    VAULT_SERVICE_TOKEN,     \* main.py: the token read from the environment
    AWS_REGION,              \* main.py: the region read from the environment
    vault_client_instance,   \* main.py global: None or the VaultClient
    s3_manager_instance,     \* main.py global: None or the S3Manager
    startup,                 \* where lifespan() stands, and how it failed
    vault_calls,             \* the calls made to the secrets backend, in order
    aws_creds,               \* what get_aws_credentials returned or raised
    buckets,                 \* the provider's buckets
    req,                     \* the endpoint invocations in progress
    started                  \* number of endpoint invocations begun

vars == <<VAULT_SERVICE_TOKEN, AWS_REGION, vault_client_instance,
          s3_manager_instance, startup, vault_calls, aws_creds, buckets, req,
          started>>

vaultVars == <<VAULT_SERVICE_TOKEN, AWS_REGION, vault_client_instance,
               s3_manager_instance, startup, vault_calls, aws_creds>>

\* ===================================================== the storage provider
NoVersion == -1

NoBucket == [owner |-> "none", versioned |-> FALSE, entries |-> {}]

Obj(k, v) == [Key |-> k, VersionId |-> v, kind |-> "obj"]
Marker(k, v) == [Key |-> k, VersionId |-> v, kind |-> "marker"]

\* Keys 1..a hold a live object, keys a+1..a+d a deleted one (a version under a
\* delete marker).
VersionedContent(a, d) ==
    {Obj(k, 1) : k \in 1..(a+d)} \cup {Marker(k, 2) : k \in (a+1)..(a+d)}

UnversionedContent(a) == {Obj(k, 0) : k \in 1..a}

Mine(versioned, entries) == [owner |-> "me", versioned |-> versioned, entries |-> entries]

\* The buckets a name may stand for at the start: none, one of another account,
\* or one of the caller's, unversioned or versioned, of any content.
InitialBuckets ==
    {NoBucket, [owner |-> "other", versioned |-> FALSE, entries |-> {}]}
    \cup {Mine(FALSE, UnversionedContent(a)) : a \in 0..MaxKeys}
    \cup {Mine(TRUE, VersionedContent(c[1], c[2])) :
            c \in {x \in (0..MaxKeys) \X (0..MaxKeys) : x[1] + x[2] <= MaxKeys}}

\* The second name stands for one of a few of them.
FewBuckets ==
    {NoBucket, Mine(FALSE, UnversionedContent(1)), Mine(TRUE, VersionedContent(1, 0))}

\* The newest entry of a key decides whether the key holds a live object.
Newest(E, k) ==
    CHOOSE e \in E : e.Key = k /\ \A f \in E : f.Key = k => f.VersionId <= e.VersionId

LiveKeys(E) ==
    {k \in {e.Key : e \in E} : Newest(E, k).kind = "obj"}

Versions(E) == {e \in E : e.kind = "obj"}
DeleteMarkers(E) == {e \in E : e.kind = "marker"}

\* Listing order: by key, and newest first within a key.
Before(e, f) ==
    \/ e.Key < f.Key
    \/ e.Key = f.Key /\ e.VersionId > f.VersionId

FirstPage(E) == {e \in E : Cardinality({f \in E : Before(f, e)}) < PageSize}

FirstKeys(S) == {k \in S : Cardinality({j \in S : j < k}) < PageSize}

Message(code) ==
    CASE code = "NoSuchBucket" -> "The specified bucket does not exist"
      [] code = "AccessDenied" -> "Access Denied"
      [] code = "BucketNotEmpty" -> "The bucket you tried to delete is not empty"
      [] code = "BucketAlreadyOwnedByYou" -> "Your previous request to create the named bucket succeeded and you already own it."
      [] code = "BucketAlreadyExists" -> "The requested bucket name is not available."
      [] code = "InvalidAccessKeyId" -> "The AWS Access Key Id you provided does not exist in our records."
      [] code = "SignatureDoesNotMatch" -> "The request signature we calculated does not match the signature you provided."
      [] code = "SlowDown" -> "Please reduce your request rate."
      [] OTHER -> "Could not connect to the endpoint URL"

ClientError(code) == [type |-> "ClientError", code |-> code, msg |-> Message(code)]
OtherException(what) == [type |-> "Exception", code |-> what, msg |-> Message(what)]
NoError == [type |-> "none", code |-> "none", msg |-> ""]

\* Errors the provider may answer any call with, whatever the bucket's state.
InjectedFaults == {ClientError("SlowDown"), OtherException("EndpointConnectionError")}
\* Errors the provider may answer a create call with for the caller's credentials.
CredentialFaults ==
    {ClientError("AccessDenied"), ClientError("InvalidAccessKeyId"),
     ClientError("SignatureDoesNotMatch")}

\* The error a call on bucket b meets before it does anything.
AccessError(b) ==
    IF b.owner = "none" THEN ClientError("NoSuchBucket")
    ELSE IF b.owner = "other" THEN ClientError("AccessDenied")
    ELSE NoError


\* list_objects_v2: the first page of the keys that hold a live object; the
\* response has no Contents when there is none.
S3ListObjectsV2(b) ==
    [err |-> AccessError(b),
     Contents |-> IF AccessError(b) = NoError THEN FirstKeys(LiveKeys(b.entries)) ELSE {}]

\* list_object_versions: the first page of versions and delete markers together.
S3ListObjectVersions(b) ==
    LET page == IF AccessError(b) = NoError THEN FirstPage(b.entries) ELSE {} IN
    [err |-> AccessError(b),
     Versions |-> Versions(page),
     DeleteMarkers |-> DeleteMarkers(page)]

NextVersionId(E, k) ==
    IF \E e \in E : e.Key = k THEN Newest(E, k).VersionId + 1 ELSE 1

\* delete_objects: an item with a version id removes that version or marker; an
\* item without one removes the object of an unversioned bucket and puts a
\* delete marker on the key in a versioned one.
S3DeleteObjects(b, items) ==
    LET plain == {i.Key : i \in {j \in items : j.VersionId = NoVersion}}
        gone == {e \in b.entries :
                   \/ \E i \in items : i.Key = e.Key /\ i.VersionId = e.VersionId
                   \/ ~b.versioned /\ e.Key \in plain}
        added == IF b.versioned
                 THEN {Marker(k, NextVersionId(b.entries, k)) : k \in plain}
                 ELSE {}
    IN  [err |-> AccessError(b),
         bucket |-> IF AccessError(b) = NoError
                    THEN [b EXCEPT !.entries = (b.entries \ gone) \cup added]
                    ELSE b]

\* delete_bucket: rejected while the bucket holds anything.
S3DeleteBucket(b) ==
    LET e == IF AccessError(b) # NoError THEN AccessError(b)
             ELSE IF b.entries # {} THEN ClientError("BucketNotEmpty")
             ELSE NoError
    IN  [err |-> e, bucket |-> IF e = NoError THEN NoBucket ELSE b]

\* create_bucket: a free name is created; a name the caller owns is answered
\* 200 in the default region and BucketAlreadyOwnedByYou elsewhere; a name of
\* another account is BucketAlreadyExists.
S3CreateBucket(b, region) ==
    LET e == IF b.owner = "other" THEN ClientError("BucketAlreadyExists")
             ELSE IF b.owner = "me" /\ region # DefaultRegion
                  THEN ClientError("BucketAlreadyOwnedByYou")
             ELSE NoError
    IN  [err |-> e,
         bucket |-> IF e = NoError /\ b.owner = "none"
                    THEN [owner |-> "me", versioned |-> FALSE, entries |-> {}]
                    ELSE b]

\* ============================================================== S3Manager
HTTPException(status, text, a, b) ==
    [type |-> "HTTPException", status |-> status,
     detail |-> [text |-> text, a |-> a, b |-> b]]

Response(status, text, a, b) ==
    [status |-> status, detail |-> [text |-> text, a |-> a, b |-> b]]

NoResponse == Response(0, "", "", "")

IdleReq ==
    [op |-> "none", name |-> "none", pc |-> "idle",
     id |-> 0,                  \* the invocation's number, in the order of arrival
     after |-> {},              \* the invocations that had returned when it arrived
     objects |-> {},                                  \* empty_bucket: objects['Contents']
     versions |-> [Versions |-> {}, DeleteMarkers |-> {}],  \* empty_bucket: versions
     calls |-> <<>>,            \* the provider calls issued, in order
     initial |-> [N |-> 0, M |-> 0, K |-> 0, owner |-> "none",   \* the bucket at arrival
                  bucket |-> NoBucket],
     emptied |-> FALSE,         \* empty_bucket has returned
     raised |-> NoError,        \* the error a provider call raised
     caught |-> NoError,        \* the error delete_bucket's handler received
     exc |-> NoError,           \* the exception that left delete_bucket
     returned |-> FALSE,        \* create_bucket has returned
     success |-> FALSE,         \* create_bucket's return value
     response |-> NoResponse]

\* One provider call as the log keeps it: the api, what a batch delete was built
\* from, its items, the location constraint of a create, the error it raised
\* and the number of entries the bucket held when the call was issued.
ProviderCall(api, name, what, items, lc, err) ==
    [api |-> api, bucket |-> name, what |-> what, items |-> items, lc |-> lc,
     err |-> err.code, left |-> Cardinality(buckets[name].entries)]

\* The outcomes of one provider call: what the provider does, or an injected fault.
Outcomes(result, faults) ==
    {result} \cup {[result EXCEPT !.err = f] : f \in faults}

\* A handler that logs the error and returns.
empty_bucket_except_swallowing(e) == NoError

\* A handler that raises a new exception made from the error's text.
empty_bucket_except_wrapping(e) == [type |-> "Exception", code |-> "", msg |-> e.msg]

\* empty_bucket, lines 148-158: both handlers log and raise the same error.
empty_bucket_except(e) == e

\* delete_bucket, lines 174-196.
delete_bucket_except(e, bucket_name) ==
    IF e.type = "ClientError"
    THEN IF e.code = "NoSuchBucket"
         THEN HTTPException(HTTP_404_NOT_FOUND, "Bucket not found.", bucket_name, "")
         ELSE IF e.code = "AccessDenied"
         THEN HTTPException(HTTP_403_FORBIDDEN, "Access denied to delete bucket.",
                            bucket_name, "")
         ELSE IF e.code = "BucketNotEmpty"
         THEN HTTPException(HTTP_409_CONFLICT,
                            "Bucket is not empty after emptying attempt.", bucket_name, "")
         ELSE HTTPException(HTTP_500_INTERNAL_SERVER_ERROR,
                            "AWS ClientError during deletion", e.code, e.msg)
    ELSE HTTPException(HTTP_500_INTERNAL_SERVER_ERROR,
                       "An unexpected error occurred", e.msg, "")

\* An endpoint that answers every exception with 500.
delete_s3_bucket_api_except_all_500(e) ==
    Response(HTTP_500_INTERNAL_SERVER_ERROR, "An unexpected error occurred", "", "")

\* delete_s3_bucket_api, lines 203-209: an HTTPException passes, anything else is 500.
delete_s3_bucket_api_except(e) ==
    IF e.type = "HTTPException"
    THEN [status |-> e.status, detail |-> e.detail]
    ELSE Response(HTTP_500_INTERNAL_SERVER_ERROR, "An unexpected error occurred", e.msg, "")

\* A create_bucket for which a bucket the caller owns is a failure as well.
create_bucket_except_strict(e) == FALSE

\* A create_bucket that takes a denied create for a success.
create_bucket_except_denied_ok(e) ==
    e.type = "ClientError" /\ e.code \in {"BucketAlreadyOwnedByYou", "AccessDenied"}

\* create_bucket, lines 58-86: the value returned for an error of the create call.
create_bucket_except(e) ==
    IF e.type = "ClientError"
    THEN IF e.code = "BucketAlreadyOwnedByYou" THEN TRUE
         ELSE IF e.code = "BucketAlreadyExists" THEN FALSE
         ELSE IF e.code = "AccessDenied" THEN FALSE
         ELSE IF e.code = "InvalidAccessKeyId" \/ e.code = "SignatureDoesNotMatch" THEN FALSE
         ELSE FALSE
    ELSE FALSE

\* A create call that names the region always.
LocationConstraint_always(region_name) == region_name

\* create_bucket, lines 48-55: the location constraint of the create call.
LocationConstraint(region_name) ==
    IF region_name = DefaultRegion THEN None ELSE region_name

\* create_s3_bucket_endpoint, lines 158-162.
create_response(success, bucket_name) ==
    IF success
    THEN Response(HTTP_200_OK, "Bucket creation initiated successfully", bucket_name,
                  AWS_REGION)
    ELSE Response(HTTP_500_INTERNAL_SERVER_ERROR, "Failed to create bucket.",
                  bucket_name, "")

Running(r) == req[r].pc \notin {"idle", "done"}

\* The worker that takes the next invocation: the first that has not run.
FreeSlot(r) ==
    req[r].pc = "idle" /\ \A q \in Reqs : req[q].pc = "idle" => r <= q

\* Requests are served by an application whose startup has ended or never ran
\* (main.py lines 152, 196: the manager may be None).
CanStart(r) ==
    /\ FreeSlot(r)
    /\ startup.pc \in {"start", "serving"}

\* The record of a new invocation.
NewReq(op, bucket_name) ==
    LET E == buckets[bucket_name].entries IN
    [IdleReq EXCEPT !.op = op, !.name = bucket_name, !.id = started + 1,
        !.after = (1..started) \ {req[q].id : q \in {x \in Reqs : Running(x)}},
        !.initial = [N |-> Cardinality(LiveKeys(E)),
                     M |-> Cardinality(Versions(E)),
                     K |-> Cardinality(DeleteMarkers(E)),
                     owner |-> buckets[bucket_name].owner,
                     bucket |-> buckets[bucket_name]]]

\* A request that starts over when the provider found the bucket not empty.
Return_retrying_conflict(r, rec, resp) ==
    IF resp.status = HTTP_409_CONFLICT /\ Len(rec.calls) < 8
    THEN req' = [req EXCEPT ![r] = [rec EXCEPT !.pc = "list_objects_v2"]]
    ELSE req' = [req EXCEPT ![r] = [rec EXCEPT !.pc = "done", !.response = resp]]

\* The request r ends with this record and response.
Return(r, rec, resp) ==
    req' = [req EXCEPT ![r] = [rec EXCEPT !.pc = "done", !.response = resp]]

\* An exception as its type, code and message (an HTTPException has no code).
Leaving(x) ==
    IF x.type = "HTTPException"
    THEN [type |-> x.type, code |-> "", msg |-> x.detail.text]
    ELSE x

\* A provider call of empty_bucket raised e: empty_bucket's handler decides what
\* delete_bucket's handler receives (lines 148-158, then 174-196).
empty_bucket_raise(r, rec, e) ==
    LET c == empty_bucket_except(e) IN
    IF c = NoError
    THEN req' = [req EXCEPT ![r] = [rec EXCEPT !.raised = e, !.emptied = TRUE,
                                              !.pc = "delete_bucket"]]
    ELSE Return(r, [rec EXCEPT !.raised = e, !.caught = c,
                                !.exc = Leaving(delete_bucket_except(c, rec.name))],
                delete_s3_bucket_api_except(delete_bucket_except(c, rec.name)))

\* The items of the three batch deletes (lines 117-119, 129-131, 138-140).
delete_keys(objects) == {[Key |-> k, VersionId |-> NoVersion] : k \in objects}
delete_versions(versions) ==
    {[Key |-> v.Key, VersionId |-> v.VersionId] : v \in versions.Versions}
\* The markers' batch built from the versions.
delete_markers_from_versions(versions) ==
    {[Key |-> dm.Key, VersionId |-> dm.VersionId] : dm \in versions.Versions}

delete_markers(versions) ==
    {[Key |-> dm.Key, VersionId |-> dm.VersionId] : dm \in versions.DeleteMarkers}

\* Where empty_bucket goes after the version listing and after the versions' batch.
AfterVersions(versions) ==
    IF versions.DeleteMarkers # {} THEN "delete_markers" ELSE "delete_bucket"
AfterListing(versions) ==
    IF versions.Versions # {} THEN "delete_versions" ELSE AfterVersions(versions)

NoneManager == [region_name |-> None]
NoneClient == [vault_token |-> None, authenticated |-> FALSE]

\* ---------------------------------------------------------------- endpoints
\* DELETE /delete-s3-bucket/{bucket_name}: main.py lines 189-201, up to the
\* first provider call of delete_bucket.
delete_s3_bucket_api(r, bucket_name) ==
    /\ CanStart(r)
    /\ started' = started + 1
    /\ LET rec == NewReq("delete", bucket_name)
       IN  IF s3_manager_instance = NoneManager
           THEN Return(r, rec, Response(HTTP_500_INTERNAL_SERVER_ERROR,
                                        "S3 Manager not initialized.", "", ""))
           ELSE req' = [req EXCEPT ![r] = [rec EXCEPT !.pc = "list_objects_v2"]]
    /\ UNCHANGED <<vaultVars, buckets>>

\* empty_bucket, lines 114-116: list the live objects.
ListObjects(r) ==
    /\ req[r].pc = "list_objects_v2"
    /\ \E out \in Outcomes(S3ListObjectsV2(buckets[req[r].name]), InjectedFaults) :
         LET rec == [req[r] EXCEPT !.calls = Append(@,
                        ProviderCall("list_objects_v2", req[r].name, "", {}, None, out.err))]
         IN  IF out.err # NoError
             THEN empty_bucket_raise(r, rec, out.err)
             ELSE req' = [req EXCEPT ![r] = [rec EXCEPT !.objects = out.Contents,
                              !.pc = IF out.Contents # {} THEN "delete_objects"
                                     ELSE "list_object_versions"]]
    /\ UNCHANGED <<vaultVars, buckets, started>>

\* A batch delete sent to every bucket of the account.
BatchDelete_every_bucket(r, what, items, next) ==
    \E out \in Outcomes(S3DeleteObjects(buckets[req[r].name], items), InjectedFaults) :
       LET rec == [req[r] EXCEPT !.calls = Append(@,
                      ProviderCall("delete_objects", req[r].name, what, items, None, out.err))]
       IN  IF out.err # NoError
           THEN /\ empty_bucket_raise(r, rec, out.err)
                /\ buckets' = buckets
           ELSE /\ req' = [req EXCEPT ![r] = [rec EXCEPT !.pc = next,
                               !.emptied = (next = "delete_bucket")]]
                /\ buckets' = [n \in Names |->
                                 IF n = req[r].name THEN out.bucket
                                 ELSE S3DeleteObjects(buckets[n], items).bucket]

\* One batch delete of empty_bucket: the call, then on to pc next.
BatchDelete(r, what, items, next) ==
    \E out \in Outcomes(S3DeleteObjects(buckets[req[r].name], items), InjectedFaults) :
       LET rec == [req[r] EXCEPT !.calls = Append(@,
                      ProviderCall("delete_objects", req[r].name, what, items, None, out.err))]
       IN  IF out.err # NoError
           THEN /\ empty_bucket_raise(r, rec, out.err)
                /\ buckets' = buckets
           ELSE /\ req' = [req EXCEPT ![r] = [rec EXCEPT !.pc = next,
                               !.emptied = (next = "delete_bucket")]]
                /\ buckets' = [buckets EXCEPT ![req[r].name] = out.bucket]

\* empty_bucket, lines 116-123: delete the listed objects in one batch.
DeleteObjectsBatch(r) ==
    /\ req[r].pc = "delete_objects"
    /\ BatchDelete(r, "objects", delete_keys(req[r].objects), "list_object_versions")
    /\ UNCHANGED <<vaultVars, started>>

\* empty_bucket, lines 126-128: list the versions and the delete markers.
ListObjectVersions(r) ==
    /\ req[r].pc = "list_object_versions"
    /\ \E out \in Outcomes(S3ListObjectVersions(buckets[req[r].name]), InjectedFaults) :
         LET rec == [req[r] EXCEPT !.calls = Append(@,
                        ProviderCall("list_object_versions", req[r].name, "", {}, None,
                                     out.err))]
             versions == [Versions |-> out.Versions, DeleteMarkers |-> out.DeleteMarkers]
         IN  IF out.err # NoError
             THEN empty_bucket_raise(r, rec, out.err)
             ELSE req' = [req EXCEPT ![r] = [rec EXCEPT !.versions = versions,
                              !.pc = AfterListing(versions),
                              !.emptied = (AfterListing(versions) = "delete_bucket")]]
    /\ UNCHANGED <<vaultVars, buckets, started>>

\* empty_bucket, lines 128-135: delete the listed versions in one batch.
DeleteVersionsBatch(r) ==
    /\ req[r].pc = "delete_versions"
    /\ BatchDelete(r, "versions", delete_versions(req[r].versions),
                   AfterVersions(req[r].versions))
    /\ UNCHANGED <<vaultVars, started>>

\* empty_bucket, lines 137-146: delete the listed delete markers in one batch.
DeleteMarkersBatch(r) ==
    /\ req[r].pc = "delete_markers"
    /\ BatchDelete(r, "markers", delete_markers(req[r].versions), "delete_bucket")
    /\ UNCHANGED <<vaultVars, started>>

\* delete_bucket, lines 172-196, and the endpoint's return, main.py lines 202-209.
DeleteBucketCall(r) ==
    /\ req[r].pc = "delete_bucket"
    /\ \E out \in Outcomes(S3DeleteBucket(buckets[req[r].name]), InjectedFaults) :
         LET rec == [req[r] EXCEPT !.calls = Append(@,
                        ProviderCall("delete_bucket", req[r].name, "", {}, None, out.err))]
         IN  IF out.err # NoError
             THEN /\ Return(r, [rec EXCEPT !.raised = out.err, !.caught = out.err,
                                   !.exc = Leaving(delete_bucket_except(out.err, rec.name))],
                            delete_s3_bucket_api_except(
                                delete_bucket_except(out.err, rec.name)))
                  /\ buckets' = buckets
             ELSE /\ Return(r, rec, Response(HTTP_200_OK, "S3 bucket deleted successfully.",
                                             rec.name, ""))
                  /\ buckets' = [buckets EXCEPT ![rec.name] = out.bucket]
    /\ UNCHANGED <<vaultVars, started>>

\* POST /create-s3-bucket: main.py lines 144-155, up to the provider call.
create_s3_bucket_endpoint(r, bucket_name) ==
    /\ CanStart(r)
    /\ started' = started + 1
    /\ LET rec == NewReq("create", bucket_name)
       IN  IF s3_manager_instance = NoneManager
           THEN Return(r, rec, Response(HTTP_500_INTERNAL_SERVER_ERROR,
                                        "S3 Manager not initialized.", "", ""))
           ELSE req' = [req EXCEPT ![r] = [rec EXCEPT !.pc = "create_bucket"]]
    /\ UNCHANGED <<vaultVars, buckets>>

\* create_bucket, lines 47-86, and the endpoint's answer, main.py lines 156-162.
CreateBucketCall(r) ==
    /\ req[r].pc = "create_bucket"
    /\ \E out \in Outcomes(S3CreateBucket(buckets[req[r].name],
                                          s3_manager_instance.region_name),
                            InjectedFaults \cup CredentialFaults) :
         LET success == IF out.err = NoError THEN TRUE ELSE create_bucket_except(out.err)
             rec == [req[r] EXCEPT !.calls = Append(@,
                        ProviderCall("create_bucket", req[r].name, "", {},
                                     LocationConstraint(s3_manager_instance.region_name),
                                     out.err)),
                        !.raised = out.err, !.returned = TRUE, !.success = success]
         IN  /\ Return(r, rec, create_response(success, rec.name))
             /\ buckets' = IF out.err = NoError
                           THEN [buckets EXCEPT ![rec.name] = out.bucket]
                           ELSE buckets
    /\ UNCHANGED <<vaultVars, started>>

\* ============================================================ VaultClient
\* Python's truth value of a string or None.
Falsy(x) == x = None \/ x = ""

\* The substrings get_aws_credentials looks for in a backend error's lower-cased
\* text.
Markers == {"forbidden", "connection refused", "unauthorized", "not found", "404"}

\* The text of a VaultError is modelled by the set of the pieces it is made of,
\* in the case the backend wrote them: pieces that hold a marker once
\* lower-cased, and one that holds none.
Words == {"Forbidden", "connection refused", "Unauthorized", "Not Found", "not found",
          "404", "sealed"}

\* str.lower on one piece of text.
lower(w) ==
    CASE w = "Forbidden" -> "forbidden"
      [] w = "Unauthorized" -> "unauthorized"
      [] w = "Not Found" -> "not found"
      [] OTHER -> w

\* A handler that looks for 'not found' alone.
error_detail_not_found_alone(m) ==
    LET text == {lower(w) : w \in m} IN
    IF "forbidden" \in text
    THEN "Vault error. Check if VAULT_SERVICE_TOKEN has 'read' capabilities"
    ELSE IF "connection refused" \in text THEN "Vault connection refused."
    ELSE IF "unauthorized" \in text THEN "Vault authentication failed."
    ELSE IF "not found" \in text THEN "Vault path not found."
    ELSE "Vault error"

\* An exception: its type, its message, the message of the exception it was
\* built from, and (a VaultError, or a ValueError built from one) the markers
\* of the backend's text.
Exc(type, text, inner, markers) ==
    [type |-> type, text |-> text, inner |-> inner, markers |-> markers]
NoExc == Exc("none", "", "", {})

NoCreds == [access_key |-> None, secret_access_key |-> None, session_token |-> None]

\* What the backend answers read_secret_version with: a response of one of four
\* shapes, a VaultError, or another exception.  A field the secret lacks is None.
SecretData ==
    [access_key : {None, "", "AK1"}, secret_access_key : {None, "", "SK1"},
     session_token : {None}]
ReadAnswers ==
    {[kind |-> k, data |-> NoCreds, markers |-> {}] :
        k \in {"empty", "no_data", "no_nested", "Exception"}}
    \cup {[kind |-> "nested", data |-> d, markers |-> {}] : d \in SecretData}
    \cup {[kind |-> "VaultError", data |-> NoCreds, markers |-> m] : m \in SUBSET Words}

\* What is_authenticated answers: the token is accepted, rejected, or the call fails.
AuthAnswers == {"accepted", "rejected", "Exception"}

\* A client that asks the backend and does not look at the answer.
initialize_client_unchecked(vault_token, answer) ==
    IF Falsy(vault_token)
    THEN [calls |-> <<>>,
          raised |-> Exc("ValueError", "VAULT_SERVICE_TOKEN must be provided.", "", {})]
    ELSE [calls |-> <<"is_authenticated">>, raised |-> NoExc]

\* _initialize_client, lines 30-45: the calls made to the backend, and the
\* exception raised (NoExc: the client is returned).
initialize_client(vault_token, answer) ==
    IF Falsy(vault_token)
    THEN [calls |-> <<>>,
          raised |-> Exc("ValueError", "VAULT_SERVICE_TOKEN must be provided.", "", {})]
    ELSE [calls |-> <<"is_authenticated">>,
          raised |-> IF answer = "accepted" THEN NoExc
                     ELSE IF answer = "rejected"
                     THEN Exc("VaultError",
                              "Failed to authenticate to Vault with service token.", "", {})
                     ELSE Exc("Exception", "Connection error", "", {})]

\* get_aws_credentials, lines 54-76: the body of the try.
get_aws_credentials_try(answer) ==
    IF answer.kind = "VaultError"
    THEN [raised |-> Exc("VaultError", "Vault error", "", answer.markers), value |-> NoCreds]
    ELSE IF answer.kind = "Exception"
    THEN [raised |-> Exc("Exception", "Connection error", "", {}), value |-> NoCreds]
    ELSE IF answer.kind = "nested"
    THEN IF Falsy(answer.data.access_key) \/ Falsy(answer.data.secret_access_key)
         THEN [raised |-> Exc("ValueError",
                              "Incomplete AWS credentials retrieved from Vault.", "", {}),
               value |-> NoCreds]
         ELSE [raised |-> NoExc, value |-> answer.data]
    ELSE [raised |-> Exc("ValueError", "Failed to retrieve data from Vault path", "", {}),
          value |-> NoCreds]

\* get_aws_credentials, lines 78-91: the message chosen for a VaultError.
error_detail(m) ==
    LET text == {lower(w) : w \in m} IN
    IF "forbidden" \in text
    THEN "Vault error. Check if VAULT_SERVICE_TOKEN has 'read' capabilities"
    ELSE IF "connection refused" \in text THEN "Vault connection refused."
    ELSE IF "unauthorized" \in text THEN "Vault authentication failed."
    ELSE IF "not found" \in text /\ "404" \in text THEN "Vault path not found."
    ELSE "Vault error"

\* get_aws_credentials, lines 78-95: the two handlers of the try.
get_aws_credentials_except(e) ==
    IF e.type = "VaultError"
    THEN Exc("ValueError", error_detail(e.markers), e.text, e.markers)
    ELSE Exc("ValueError", "Internal error while fetching from Vault", e.text, e.markers)

\* get_aws_credentials, lines 47-95.
get_aws_credentials(answer) ==
    LET t == get_aws_credentials_try(answer) IN
    IF t.raised = NoExc THEN t
    ELSE [raised |-> get_aws_credentials_except(t.raised), value |-> NoCreds]

\* lifespan, lines 92-99: both handlers stop the startup.
lifespan_except(e) ==
    Exc("RuntimeError", "Application startup failed", e.text, e.markers)

\* lifespan, lines 67-75: build the VaultClient.
LifespanVaultClient ==
    /\ startup.pc = "start"
    /\ started = 0
    /\ \E answer \in AuthAnswers :
         LET c == initialize_client(VAULT_SERVICE_TOKEN, answer) IN
         /\ vault_calls' = vault_calls \o c.calls
         /\ IF c.raised = NoExc
            THEN /\ vault_client_instance' =
                        [vault_token |-> VAULT_SERVICE_TOKEN, authenticated |-> TRUE]
                 /\ startup' = [pc |-> "vault_ready", raised |-> NoExc, cause |-> NoExc,
                                auth |-> answer]
            ELSE /\ vault_client_instance' = vault_client_instance
                 /\ startup' = [pc |-> "failed", raised |-> lifespan_except(c.raised),
                                cause |-> c.raised,
                                auth |-> IF c.calls = <<>> THEN "none" ELSE answer]
    /\ UNCHANGED <<VAULT_SERVICE_TOKEN, AWS_REGION, s3_manager_instance, aws_creds,
                   buckets, req, started>>

\* lifespan, lines 77-99: read the credentials and build the S3Manager.
LifespanGetCredentials ==
    /\ startup.pc = "vault_ready"
    /\ \E answer \in ReadAnswers :
         LET g == get_aws_credentials(answer) IN
         /\ vault_calls' = Append(vault_calls, "read_secret_version")
         /\ aws_creds' = [raised |-> g.raised, value |-> g.value, read |-> answer]
         /\ IF g.raised = NoExc
            THEN /\ s3_manager_instance' = [region_name |-> AWS_REGION]
                 /\ startup' = [startup EXCEPT !.pc = "serving"]
            ELSE /\ s3_manager_instance' = s3_manager_instance
                 /\ startup' = [startup EXCEPT !.pc = "failed",
                                    !.raised = lifespan_except(g.raised),
                                    !.cause = g.raised]
    /\ UNCHANGED <<VAULT_SERVICE_TOKEN, AWS_REGION, vault_client_instance, buckets, req,
                   started>>

\* ============================================================ the system
Init ==
    /\ VAULT_SERVICE_TOKEN \in {None, "", "s.token"}
    /\ AWS_REGION \in Regions
    /\ vault_client_instance = NoneClient
    /\ s3_manager_instance = NoneManager
    /\ startup = [pc |-> "start", raised |-> NoExc, cause |-> NoExc, auth |-> "none"]
    /\ vault_calls = <<>>
    /\ aws_creds = [raised |-> NoExc, value |-> NoCreds,
                    read |-> [kind |-> "none", data |-> NoCreds, markers |-> {}]]
    /\ buckets \in {f \in [Names -> InitialBuckets] : f["b2"] \in FewBuckets}
    /\ req = [r \in Reqs |-> IdleReq]
    /\ started = 0

Next ==
    \/ LifespanVaultClient
    \/ LifespanGetCredentials
    \/ \E r \in Reqs, n \in Names : delete_s3_bucket_api(r, n)
    \/ \E r \in Reqs : ListObjects(r)
    \/ \E r \in Reqs : DeleteObjectsBatch(r)
    \/ \E r \in Reqs : ListObjectVersions(r)
    \/ \E r \in Reqs : DeleteVersionsBatch(r)
    \/ \E r \in Reqs : DeleteMarkersBatch(r)
    \/ \E r \in Reqs : DeleteBucketCall(r)
    \/ \E r \in Reqs, n \in Names : create_s3_bucket_endpoint(r, n)
    \/ \E r \in Reqs : CreateBucketCall(r)

Spec == Init /\ [][Next]_vars

\* The provider calls of request r.  The handlers are synchronous: a request
\* that has issued a call gets its answer or its error and goes on.
Serve(r) ==
    \/ ListObjects(r)
    \/ DeleteObjectsBatch(r)
    \/ ListObjectVersions(r)
    \/ DeleteVersionsBatch(r)
    \/ DeleteMarkersBatch(r)
    \/ DeleteBucketCall(r)
    \/ CreateBucketCall(r)

\* The service with a token and the default region configured, every content
\* of the buckets, and requests that go on.
FairInit == Init /\ VAULT_SERVICE_TOKEN = "s.token" /\ AWS_REGION = DefaultRegion
FairSpec == FairInit /\ [][Next]_vars /\ \A r \in Reqs : WF_vars(Serve(r))

\* ================================================================ claims
IsBatch(c) == c.api = "delete_objects"
Batches(r) == SelectSeq(req[r].calls, IsBatch)
DeletionCalls(r) == {i \in DOMAIN req[r].calls : req[r].calls[i].api = "delete_bucket"}
WhatRank(w) == CASE w = "objects" -> 1 [] w = "versions" -> 2 [] OTHER -> 3

\* C1: delete_bucket issues the provider's bucket deletion only after
\* empty_bucket has returned without raising: every provider call before it is a
\* call of empty_bucket that succeeded, the version listing among them; and a
\* request in which a call of empty_bucket failed issues no bucket deletion.
C1_DeletionOnlyAfterEmptying ==
    \A r \in Reqs :
        LET calls == req[r].calls IN
        /\ \A i \in DeletionCalls(r) :
              /\ req[r].emptied
              /\ \A j \in 1..(i-1) :
                    /\ calls[j].err = "none"
                    /\ calls[j].api \in {"list_objects_v2", "delete_objects",
                                        "list_object_versions"}
              /\ \E j \in 1..(i-1) : calls[j].api = "list_object_versions"
        /\ (\E j \in DOMAIN calls :
               calls[j].api # "delete_bucket" /\ calls[j].err # "none")
           => DeletionCalls(r) = {}

\* One request deleted its bucket after a batch delete, another failed in
\* empty_bucket and has returned.
C1_Witness ==
    /\ \E r \in Reqs :
          /\ req[r].pc = "done"
          /\ DeletionCalls(r) # {}
          /\ Len(Batches(r)) >= 1
    /\ \E r \in Reqs :
          /\ req[r].pc = "done"
          /\ req[r].op = "delete"
          /\ Len(req[r].calls) >= 2
          /\ req[r].calls[Len(req[r].calls)].err # "none"
          /\ DeletionCalls(r) = {}

\* C2: when delete_bucket issues the provider's bucket deletion, the bucket holds
\* no live object, no version and no delete marker.
C2_BucketEmptyAtDeletion ==
    \A r \in Reqs : \A i \in DeletionCalls(r) : req[r].calls[i].left = 0

\* The order of the batch deletes of request r, and their place before the
\* bucket deletion.
BatchesInOrder(r) ==
    LET calls == req[r].calls
        B == Batches(r)
    IN  /\ Len(B) <= 3
        /\ \A i, j \in DOMAIN B : i < j => WhatRank(B[i].what) < WhatRank(B[j].what)
        /\ \A i \in DeletionCalls(r) : \A j \in DOMAIN calls :
              calls[j].api = "delete_objects" => j < i

\* C3 as stated: the batch deletes are at most three, in the order objects,
\* versions, markers, of the sizes N, M and K the bucket held when delete_bucket
\* was called, and all precede the bucket deletion.  It is stated here for the
\* buckets whose whole content fits one page of a listing.
C3_BatchSizesNMK ==
    \A r \in Reqs :
        /\ BatchesInOrder(r)
        /\ req[r].initial.N + req[r].initial.M + req[r].initial.K <= PageSize =>
           \A i \in DOMAIN Batches(r) :
              LET b == Batches(r)[i] IN
              Cardinality(b.items) =
                  CASE b.what = "objects" -> req[r].initial.N
                    [] b.what = "versions" -> req[r].initial.M
                    [] OTHER -> req[r].initial.K

\* C3 as amended: the batch deletes are at most three, in the order objects,
\* versions, markers, all before the bucket deletion; each holds exactly the
\* entries of the listing response before it (the keys of list_objects_v2, the
\* Versions and the DeleteMarkers of list_object_versions) and is issued exactly
\* when that listing is not empty.
C3_BatchesFollowListings ==
    \A r \in Reqs :
        LET B == Batches(r)
            Issued(w) == \E i \in DOMAIN B : B[i].what = w
            Failed == \E i \in DOMAIN B : B[i].err # "none"
        IN  /\ BatchesInOrder(r)
            /\ \A i \in DOMAIN B :
                  /\ B[i].items # {}
                  /\ B[i].what = "objects" =>
                        B[i].items = {[Key |-> k, VersionId |-> NoVersion] :
                                        k \in req[r].objects}
                  /\ B[i].what = "versions" =>
                        B[i].items = {[Key |-> e.Key, VersionId |-> e.VersionId] :
                                        e \in req[r].versions.Versions}
                  /\ B[i].what = "markers" =>
                        B[i].items = {[Key |-> e.Key, VersionId |-> e.VersionId] :
                                        e \in req[r].versions.DeleteMarkers}
            /\ req[r].emptied =>
                  /\ Issued("objects") <=> req[r].objects # {}
                  /\ Issued("versions") <=> req[r].versions.Versions # {}
                  /\ Issued("markers") <=> req[r].versions.DeleteMarkers # {}

\* A versioned bucket with a live object was emptied by three batches, the
\* markers' batch holding the marker the objects' batch made.
C3_Witness ==
    \E r \in Reqs :
        /\ req[r].pc = "done"
        /\ DeletionCalls(r) # {}
        /\ Len(Batches(r)) = 3
        /\ req[r].initial.K = 0
        /\ req[r].response.status = HTTP_200_OK

LastCall(r) == req[r].calls[Len(req[r].calls)]

\* A delete request that reached delete_bucket and has failed.
FailedDelete(r) ==
    /\ req[r].op = "delete"
    /\ req[r].pc = "done"
    /\ req[r].calls # <<>>
    /\ LastCall(r).err # "none"

\* C4: a failed delete_bucket answers by the provider's error code: NoSuchBucket
\* 404, AccessDenied 403, BucketNotEmpty 409, any other code 500 with the code and
\* the message, an exception that is no provider error 500; a bucket that does
\* not exist gives 404, one of another account 403, one left non-empty 409; and
\* the endpoint answers with that status.
C4_DeleteErrorMapping ==
    \A r \in Reqs :
        /\ FailedDelete(r) =>
              LET e == req[r].raised
                  resp == req[r].response
              IN  /\ e.code = LastCall(r).err
                  /\ e.type = "ClientError" /\ e.code = "NoSuchBucket" => resp.status = 404
                  /\ e.type = "ClientError" /\ e.code = "AccessDenied" => resp.status = 403
                  /\ e.type = "ClientError" /\ e.code = "BucketNotEmpty" => resp.status = 409
                  /\ e.type = "ClientError"
                       /\ e.code \notin {"NoSuchBucket", "AccessDenied", "BucketNotEmpty"}
                     => /\ resp.status = 500
                        /\ resp.detail.a = e.code
                        /\ resp.detail.b = e.msg
                  /\ e.type # "ClientError" => resp.status = 500
                  /\ LastCall(r).api = "delete_bucket" /\ LastCall(r).left > 0
                       /\ e.code \notin {"SlowDown", "EndpointConnectionError"}
                     => resp.status = 409
        /\ req[r].op = "delete" /\ req[r].pc = "done" /\ req[r].calls # <<>>
             /\ LastCall(r).err = "none"
           => req[r].response.status = 200

\* Two delete requests have failed, one with 409 on a bucket left non-empty and
\* one with 404 on a bucket that does not exist.
C4_Witness ==
    /\ \E r \in Reqs : FailedDelete(r) /\ req[r].response.status = 409
                         /\ LastCall(r).left > 0
    /\ \E r \in Reqs : FailedDelete(r) /\ req[r].response.status = 404
                         /\ req[r].initial.owner = "none"

\* A delete request that failed in a provider call of empty_bucket.
FailedEmptying(r) == FailedDelete(r) /\ LastCall(r).api # "delete_bucket"

\* C5 as stated: the caller of delete_bucket observes the provider error that the
\* failing call of empty_bucket raised: the same type, code and message.
C5_CallerSeesProviderError ==
    \A r \in Reqs : FailedEmptying(r) => req[r].exc = req[r].raised

\* C5 as amended: the provider error that a call of empty_bucket raised reaches
\* delete_bucket's handler unmodified (the same type, code and message) and is
\* not swallowed: no bucket deletion is issued and the request fails; what the
\* caller of delete_bucket observes is the HTTPException that handler makes of it.
C5_EmptyingErrorReachesHandler ==
    \A r \in Reqs :
        FailedEmptying(r) =>
            /\ req[r].raised.type \in {"ClientError", "Exception"}
            /\ req[r].raised.code = LastCall(r).err
            /\ req[r].caught = req[r].raised
            /\ req[r].exc.type = "HTTPException"
            /\ req[r].response.status \in {404, 403, 500}
            /\ DeletionCalls(r) = {}

\* A batch delete of empty_bucket failed with a provider error after a listing.
C5_Witness ==
    \E r \in Reqs :
        /\ FailedEmptying(r)
        /\ LastCall(r).api = "delete_objects"
        /\ req[r].raised.type = "ClientError"
        /\ req[r].caught = req[r].raised

\* y is a create_bucket of the name of x, called right after x returned, with no
\* other invocation before or between them.
CreateTwice(x, y) ==
    /\ req[x].op = "create" /\ req[y].op = "create"
    /\ req[x].name = req[y].name
    /\ req[x].pc = "done" /\ req[y].pc = "done"
    /\ req[x].returned /\ req[y].returned
    /\ req[x].after = {} /\ req[x].id = 1
    /\ req[y].id = 2 /\ req[y].after = {1}

\* The provider answered the create call of r by the bucket's state alone.
NotRejected(r) ==
    req[r].raised.code \notin {"AccessDenied", "InvalidAccessKeyId", "SignatureDoesNotMatch",
                               "SlowDown", "EndpointConnectionError"}

\* C6 as stated: for a name the caller does not own, create_bucket followed
\* immediately by create_bucket of that name returns true both times.  It is
\* stated here for the calls the provider answers by the bucket's state alone.
C6_CreateTwiceTrue ==
    \A x, y \in Reqs :
        CreateTwice(x, y) /\ req[x].initial.owner # "me"
            /\ NotRejected(x) /\ NotRejected(y)
            => req[x].success /\ req[y].success

\* C6 as amended: for a name no account owns, create_bucket followed immediately
\* by create_bucket of that name returns true both times, unless the provider
\* rejects a call for the caller's credentials or permissions or fails; and a
\* create call on a bucket the caller owns returns true and leaves every bucket
\* and its contents unchanged.
C6_CreateIdempotent ==
    /\ [](\A x, y \in Reqs :
            CreateTwice(x, y) /\ req[x].initial.owner = "none"
                /\ NotRejected(x) /\ NotRejected(y)
            => /\ req[x].success /\ req[y].success
               /\ req[y].raised.code \in {"none", "BucketAlreadyOwnedByYou"})
    /\ [][\A r \in Reqs :
            /\ req[r].pc = "create_bucket"
            /\ req'[r].pc = "done"
            /\ buckets[req[r].name].owner = "me"
            /\ req'[r].raised.code \in {"none", "BucketAlreadyOwnedByYou"}
            => req'[r].success /\ buckets' = buckets]_vars

\* The second of two creates of a free name was answered BucketAlreadyOwnedByYou
\* and the bucket holds what it held.
C6_Witness ==
    \E x, y \in Reqs :
        /\ CreateTwice(x, y)
        /\ req[x].initial.owner = "none"
        /\ req[x].raised.code = "none"
        /\ req[y].raised.code = "BucketAlreadyOwnedByYou"
        /\ req[y].success
        /\ buckets[req[y].name].owner = "me"

\* C7: every provider create call carries no location constraint when the
\* manager's region is us-east-1 and the region as its location constraint
\* otherwise, and a create_bucket invocation issues exactly one create call.
C7_LocationConstraint ==
    \A r \in Reqs :
        req[r].op = "create" =>
            /\ \A i \in DOMAIN req[r].calls :
                  /\ req[r].calls[i].api = "create_bucket"
                  /\ req[r].calls[i].bucket = req[r].name
                  /\ s3_manager_instance.region_name = "us-east-1"
                        => req[r].calls[i].lc = None
                  /\ s3_manager_instance.region_name # "us-east-1"
                        => req[r].calls[i].lc = s3_manager_instance.region_name
            /\ req[r].returned => Len(req[r].calls) = 1
            /\ ~req[r].returned => req[r].calls = <<>>

\* A create call was issued in the default region, another in the same
\* behaviour by a second invocation.
C7_Witness ==
    /\ s3_manager_instance.region_name = "us-east-1"
    /\ \A r \in Reqs :
          /\ req[r].op = "create"
          /\ req[r].returned
          /\ req[r].calls[1].lc = None

\* C8: create_bucket returns, and returns false for every error of the create
\* call but BucketAlreadyOwnedByYou; the endpoint answers 500 exactly when the
\* manager is None or create_bucket returned false, and 200 otherwise.
C8_CreateNeverRaises ==
    \A r \in Reqs :
        req[r].op = "create" /\ req[r].pc = "done" =>
            /\ req[r].returned <=> s3_manager_instance # NoneManager
            /\ req[r].returned => req[r].raised.code = LastCall(r).err
            /\ req[r].returned =>
                  (req[r].success <=>
                      req[r].raised.code \in {"none", "BucketAlreadyOwnedByYou"})
            /\ req[r].response.status = 500 <=> (~req[r].returned \/ ~req[r].success)
            /\ req[r].response.status # 500 => req[r].response.status = 200

\* A create call failed with SignatureDoesNotMatch and another with an exception
\* that is no provider error; both invocations were answered 500.
C8_Witness ==
    /\ \E r \in Reqs :
          /\ req[r].op = "create" /\ req[r].pc = "done" /\ req[r].returned
          /\ req[r].raised.code = "SignatureDoesNotMatch"
          /\ req[r].response.status = 500
    /\ \E r \in Reqs :
          /\ req[r].op = "create" /\ req[r].pc = "done" /\ req[r].returned
          /\ req[r].raised.type = "Exception"
          /\ req[r].response.status = 500

\* The secret read holds a nested data object that lacks a non-empty access_key
\* or a non-empty secret_access_key.
IncompleteSecret ==
    /\ aws_creds.read.kind = "nested"
    /\ Falsy(aws_creds.read.data.access_key) \/ Falsy(aws_creds.read.data.secret_access_key)

\* C9: get_aws_credentials on an incomplete secret fails with the error of the
\* incomplete credentials, not the generic internal error, after the one read
\* and no other call; on a complete one it returns the nested data object read.
C9_IncompleteCredentialsError ==
    /\ IncompleteSecret =>
          /\ aws_creds.raised.type = "ValueError"
          /\ aws_creds.raised.text = "Incomplete AWS credentials retrieved from Vault."
          /\ vault_calls = <<"is_authenticated", "read_secret_version">>
    /\ aws_creds.read.kind = "nested" /\ ~IncompleteSecret =>
          /\ aws_creds.raised = NoExc
          /\ aws_creds.value = aws_creds.read.data

\* C10: with an empty token the construction of the VaultClient fails with the
\* ValueError of the missing token and calls the backend never; with a token it
\* asks the backend once, fails with a VaultError when the backend rejects the
\* token, and a client exists only when the backend accepted it.
C10_ClientIsAuthenticated ==
    /\ Falsy(VAULT_SERVICE_TOKEN) /\ startup.pc # "start" =>
          /\ startup.pc = "failed"
          /\ startup.cause.type = "ValueError"
          /\ startup.cause.text = "VAULT_SERVICE_TOKEN must be provided."
          /\ vault_calls = <<>>
    /\ ~Falsy(VAULT_SERVICE_TOKEN) /\ startup.pc # "start" =>
          /\ vault_calls # <<>>
          /\ vault_calls[1] = "is_authenticated"
          /\ \A i \in DOMAIN vault_calls : vault_calls[i] = "is_authenticated" => i = 1
    /\ startup.auth = "rejected" =>
          /\ startup.pc = "failed"
          /\ startup.cause.type = "VaultError"
    /\ vault_client_instance # NoneClient <=>
          startup.pc \in {"vault_ready", "serving"}
          \/ (startup.pc = "failed" /\ startup.auth = "accepted")
    /\ vault_client_instance # NoneClient =>
          /\ startup.auth = "accepted"
          /\ vault_client_instance.vault_token = VAULT_SERVICE_TOKEN

\* The backend rejected the token and the startup has failed without a client.
C10_Witness ==
    /\ startup.auth = "rejected"
    /\ startup.pc = "failed"
    /\ vault_client_instance = NoneClient
    /\ vault_calls = <<"is_authenticated">>

\* The categories a backend error is re-raised as, by the message of the
\* ValueError that get_aws_credentials raises.
PermissionDenied == "Vault error. Check if VAULT_SERVICE_TOKEN has 'read' capabilities"
ConnectionRefused == "Vault connection refused."
Unauthorized == "Vault authentication failed."
PathNotFound == "Vault path not found."
GenericBackendError == "Vault error"

\* The secret read raised a backend error whose lower-cased text holds the
\* markers yes and none of the markers no.
BackendErrorWith(yes, no) ==
    /\ aws_creds.read.kind = "VaultError"
    /\ \A y \in yes : \E w \in aws_creds.read.markers : lower(w) = y
    /\ \A n \in no : \A w \in aws_creds.read.markers : lower(w) # n

\* C11: a backend error raised by the secret read is re-raised as one ValueError
\* of exactly one category, chosen by the markers in the lower-cased error text
\* with the precedence forbidden > connection refused > unauthorized >
\* (not found together with 404) > generic; a text with none of them, or with
\* 'not found' and no '404', is the generic backend error.
C11_BackendErrorClassification ==
    LET text == aws_creds.raised.text IN
    /\ aws_creds.read.kind = "VaultError" =>
          /\ aws_creds.raised.type = "ValueError"
          /\ text \in {PermissionDenied, ConnectionRefused, Unauthorized, PathNotFound,
                       GenericBackendError}
          /\ aws_creds.value = NoCreds
          /\ startup.pc = "failed" /\ startup.cause = aws_creds.raised
    /\ BackendErrorWith({"forbidden"}, {}) => text = PermissionDenied
    /\ BackendErrorWith({"connection refused"}, {"forbidden"}) => text = ConnectionRefused
    /\ BackendErrorWith({"unauthorized"}, {"forbidden", "connection refused"})
          => text = Unauthorized
    /\ BackendErrorWith({"not found", "404"},
                        {"forbidden", "connection refused", "unauthorized"})
          => text = PathNotFound
    /\ BackendErrorWith({}, {"forbidden", "connection refused", "unauthorized", "404"})
          => text = GenericBackendError
    /\ BackendErrorWith({}, {"forbidden", "connection refused", "unauthorized",
                             "not found"})
          => text = GenericBackendError

\* The secret read raised a backend error whose text says 'Not Found' and has no
\* '404' nor another marker, and it was re-raised as the generic backend error.
C11_Witness ==
    /\ BackendErrorWith({"not found"},
                        {"forbidden", "connection refused", "unauthorized", "404"})
    /\ "Not Found" \in aws_creds.read.markers
    /\ aws_creds.raised.text = GenericBackendError

\* The state of the delete request of worker r: None before the request,
\* Emptying inside empty_bucket, Emptied once it has returned, Deleted or Failed
\* at the end.  Requested and Deleting are passed inside one step: the
\* endpoint's (up to the first provider call) and the bucket deletion's.
EmptyingPcs ==
    {"list_objects_v2", "delete_objects", "list_object_versions", "delete_versions",
     "delete_markers"}
Phase(rec) ==
    IF rec.op # "delete" THEN "None"
    ELSE IF rec.pc \in EmptyingPcs THEN "Emptying"
    ELSE IF rec.pc = "delete_bucket" THEN "Emptied"
    ELSE IF rec.response.status = HTTP_200_OK THEN "Deleted"
    ELSE "Failed"
FailureKinds ==
    {HTTP_404_NOT_FOUND, HTTP_403_FORBIDDEN, HTTP_409_CONFLICT,
     HTTP_500_INTERNAL_SERVER_ERROR}

\* The steps of one delete request.
DeleteRequestStep(r) ==
    LET p == Phase(req[r])
        q == Phase(req'[r])
        calls == req[r].calls
        calls2 == req'[r].calls
        Deleting == /\ Len(calls2) = Len(calls) + 1
                    /\ calls2[Len(calls2)].api = "delete_bucket"
    IN  /\ p = "None" =>
              \/ req'[r] = req[r]
              \/ q = "Emptying" /\ calls2 = <<>>
              \/ q = "Failed" /\ calls2 = <<>>
              \/ req'[r].op = "create"
        /\ p = "Emptying" =>
              \/ req'[r] = req[r]
              \/ /\ q \in {"Emptying", "Emptied", "Failed"}
                 /\ Len(calls2) = Len(calls) + 1
                 /\ calls2[Len(calls2)].api # "delete_bucket"
                 /\ q = "Failed" <=> calls2[Len(calls2)].err # "none"
        /\ p = "Emptied" =>
              \/ req'[r] = req[r]
              \/ q \in {"Deleted", "Failed"} /\ Deleting
        /\ p \in {"Deleted", "Failed"} => req'[r] = req[r]

\* C12: a delete request moves only along Requested -> Emptying -> Emptied ->
\* Deleting -> Deleted, or from Requested, Emptying or Deleting to Failed(kind);
\* it reaches one of Deleted and Failed, never both; once Deleted or Failed it
\* issues no provider call and never is Emptying or Deleting again, a failure of
\* the kind Conflict included.
C12_DeleteRequestStateMachine ==
    /\ [][\A r \in Reqs : DeleteRequestStep(r)]_vars
    /\ [](\A r \in Reqs :
            /\ Phase(req[r]) = "Failed" => req[r].response.status \in FailureKinds
            /\ Phase(req[r]) = "Deleted" =>
                  /\ req[r].calls # <<>>
                  /\ LastCall(r).api = "delete_bucket" /\ LastCall(r).err = "none"
                  /\ DeletionCalls(r) = {Len(req[r].calls)}
            /\ Cardinality(DeletionCalls(r)) <= 1
            /\ Phase(req[r]) = "Emptied" <=> (req[r].op = "delete" /\ req[r].emptied
                                                 /\ req[r].pc # "done"))
    /\ \A r \in Reqs :
          (req[r].op = "delete") ~> (Phase(req[r]) \in {"Deleted", "Failed"})

\* A delete request failed with Conflict at the bucket deletion, and a request
\* that arrived after it had returned has run to its end as well.
C12_Witness ==
    \E x, y \in Reqs :
        /\ Phase(req[x]) = "Failed"
        /\ req[x].response.status = HTTP_409_CONFLICT
        /\ LastCall(x).api = "delete_bucket"
        /\ req[x].id \in req[y].after
        /\ req[y].pc = "done"
        /\ req[y].calls # <<>>

\* A request alone on its bucket b: the provider call it logs, the record it
\* ends with when a call raised e, and the records and buckets one provider call
\* after the record rec, computed from rec and b only.
SoloCall(rec, b, api, what, items, lc, err) ==
    [api |-> api, bucket |-> rec.name, what |-> what, items |-> items, lc |-> lc,
     err |-> err.code, left |-> Cardinality(b.entries)]
SoloFail(rec, e) ==
    [rec EXCEPT !.raised = e, !.caught = e,
                !.exc = Leaving(delete_bucket_except(e, rec.name)),
                !.pc = "done",
                !.response = delete_s3_bucket_api_except(delete_bucket_except(e, rec.name))]
SoloList(rec, b) ==
    {LET rc == [rec EXCEPT !.calls = Append(@,
                    SoloCall(rec, b, "list_objects_v2", "", {}, None, out.err))]
     IN  IF out.err # NoError THEN [rec |-> SoloFail(rc, out.err), bucket |-> b]
         ELSE [rec |-> [rc EXCEPT !.objects = out.Contents,
                            !.pc = IF out.Contents # {} THEN "delete_objects"
                                   ELSE "list_object_versions"],
               bucket |-> b]
     : out \in Outcomes(S3ListObjectsV2(b), InjectedFaults)}
SoloListVersions(rec, b) ==
    {LET rc == [rec EXCEPT !.calls = Append(@,
                    SoloCall(rec, b, "list_object_versions", "", {}, None, out.err))]
         v == [Versions |-> out.Versions, DeleteMarkers |-> out.DeleteMarkers]
     IN  IF out.err # NoError THEN [rec |-> SoloFail(rc, out.err), bucket |-> b]
         ELSE [rec |-> [rc EXCEPT !.versions = v, !.pc = AfterListing(v),
                            !.emptied = (AfterListing(v) = "delete_bucket")],
               bucket |-> b]
     : out \in Outcomes(S3ListObjectVersions(b), InjectedFaults)}
SoloBatch(rec, b, what, items, next) ==
    {LET rc == [rec EXCEPT !.calls = Append(@,
                    SoloCall(rec, b, "delete_objects", what, items, None, out.err))]
     IN  IF out.err # NoError THEN [rec |-> SoloFail(rc, out.err), bucket |-> b]
         ELSE [rec |-> [rc EXCEPT !.pc = next, !.emptied = (next = "delete_bucket")],
               bucket |-> out.bucket]
     : out \in Outcomes(S3DeleteObjects(b, items), InjectedFaults)}
SoloDelete(rec, b) ==
    {LET rc == [rec EXCEPT !.calls = Append(@,
                    SoloCall(rec, b, "delete_bucket", "", {}, None, out.err))]
     IN  IF out.err # NoError THEN [rec |-> SoloFail(rc, out.err), bucket |-> b]
         ELSE [rec |-> [rc EXCEPT !.pc = "done",
                            !.response = Response(HTTP_200_OK,
                                "S3 bucket deleted successfully.", rec.name, "")],
               bucket |-> out.bucket]
     : out \in Outcomes(S3DeleteBucket(b), InjectedFaults)}
SoloCreate(rec, b, region) ==
    {LET ok == IF out.err = NoError THEN TRUE ELSE create_bucket_except(out.err)
     IN  [rec |-> [rec EXCEPT !.calls = Append(@,
                        SoloCall(rec, b, "create_bucket", "", {},
                                 LocationConstraint(region), out.err)),
                        !.raised = out.err, !.returned = TRUE, !.success = ok,
                        !.pc = "done", !.response = create_response(ok, rec.name)],
          bucket |-> IF out.err = NoError THEN out.bucket ELSE b]
     : out \in Outcomes(S3CreateBucket(b, region), InjectedFaults \cup CredentialFaults)}
SoloStep(rec, b, region) ==
    CASE rec.pc = "list_objects_v2" -> SoloList(rec, b)
      [] rec.pc = "delete_objects" ->
            SoloBatch(rec, b, "objects", delete_keys(rec.objects), "list_object_versions")
      [] rec.pc = "list_object_versions" -> SoloListVersions(rec, b)
      [] rec.pc = "delete_versions" ->
            SoloBatch(rec, b, "versions", delete_versions(rec.versions),
                      AfterVersions(rec.versions))
      [] rec.pc = "delete_markers" ->
            SoloBatch(rec, b, "markers", delete_markers(rec.versions), "delete_bucket")
      [] rec.pc = "delete_bucket" -> SoloDelete(rec, b)
      [] rec.pc = "create_bucket" -> SoloCreate(rec, b, region)
      [] OTHER -> {}

\* The records and buckets n provider calls after those of S.
RECURSIVE SoloAfter(_, _, _)
SoloAfter(S, n, region) ==
    IF n = 0 THEN S
    ELSE SoloAfter(UNION {SoloStep(x.rec, x.bucket, region) : x \in S}, n - 1, region)

\* A request for the operation op on the name name arrives at the bucket b: it
\* is answered at once when there is no manager and goes to its first call
\* otherwise.
SoloStart(op, name, initial) ==
    LET rec == [IdleReq EXCEPT !.op = op, !.name = name, !.initial = initial] IN
    {[rec |-> [rec EXCEPT !.pc = "done",
                    !.response = Response(HTTP_500_INTERNAL_SERVER_ERROR,
                                          "S3 Manager not initialized.", "", "")],
      bucket |-> initial.bucket],
     [rec |-> [rec EXCEPT !.pc = IF op = "delete" THEN "list_objects_v2"
                                 ELSE "create_bucket"],
      bucket |-> initial.bucket]}

\* No other request has been made for the name of request r.
AloneOnName(r) ==
    /\ req[r].op # "none"
    /\ \A q \in Reqs \ {r} : req[q].op # "none" => req[q].name # req[r].name

\* C13: requests for different bucket names do not interact.  Whatever the
\* interleaving, the provider calls a request for a name has issued, its outcome
\* and the bucket of that name are those of a run of the request alone from the
\* bucket it arrived at; every call of a request names the request's bucket; and
\* a bucket changes only in a step of a request for its name.
C13_DifferentNamesDoNotInteract ==
    /\ [](\A r \in Reqs :
            /\ \A i \in DOMAIN req[r].calls : req[r].calls[i].bucket = req[r].name
            /\ AloneOnName(r) =>
                  [rec |-> [req[r] EXCEPT !.id = 0, !.after = {}],
                   bucket |-> buckets[req[r].name]]
                  \in SoloAfter(SoloStart(req[r].op, req[r].name, req[r].initial),
                                Len(req[r].calls), s3_manager_instance.region_name))
    /\ [][\A n \in Names :
             buckets'[n] # buckets[n] =>
                \E r \in Reqs : /\ Running(r) /\ req[r].name = n
                                /\ req'[r] # req[r]
                                /\ \A q \in Reqs \ {r} : req'[q] = req[q]]_vars

\* A create request for one name arrived, created its bucket and returned while
\* a delete request for the other name was running: the delete request had
\* emptied a bucket by two batches or more and goes on to the deletion.
C13_Witness ==
    \E x, y \in Reqs :
        /\ req[x].op = "delete" /\ req[x].pc = "delete_bucket"
        /\ Len(Batches(x)) >= 2
        /\ req[y].op = "create" /\ req[y].pc = "done" /\ req[y].success
        /\ req[y].initial.owner = "none"
        /\ req[y].name # req[x].name
        /\ req[y].id > req[x].id
        /\ buckets[req[y].name].owner = "me"

====
